---- MODULE Spec2Model ----
(***************************************************************************)
(* Model of cmd/kubernetes.go of gscloud: the save-kubeconfig and           *)
(* exec-credential commands, the provider fetch and the exec-credential    *)
(* cache (cacheKubeConfig / loadCachedKubeConfig).                          *)
(*                                                                         *)
(* Every command invocation is one atomic step (the program is a           *)
(* single-threaded process per invocation).  The file system, the clock    *)
(* and the environment persist between invocations; the variables call,    *)
(* stdout, stderr, exit, trace and ret describe the invocation that has    *)
(* just ended.                                                             *)
(*                                                                         *)
(* Time is counted in ticks, TicksPerSec ticks to the second, so that the  *)
(* whole-second resolution of the JSON form of a timestamp (RFC 3339) is   *)
(* visible.  Only the instant of a timestamp is modelled, not its          *)
(* location or monotonic reading.                                          *)
(***************************************************************************)
EXTENDS Integers, Sequences, FiniteSets, TLC

VARIABLES
    now,         \* time.Now(), in ticks
    cacheFiles,  \* <config-dir>/cache/exec-credential/<id>.json, per cluster id
    kubeFiles,   \* the kubeconfig files, per path
    environ,     \* the process environment and command line of the session
    call,        \* the invocation that has just ended: operation and inputs
    stdout,      \* what that invocation wrote to standard output
    stderr,      \* what that invocation wrote to standard error
    exit,        \* how that invocation ended
    trace,       \* its side effects, in order
    ret,         \* return value of a direct call of a cache function
    cachedAt     \* history: when the record in each cache file was fetched

vars == <<now, cacheFiles, kubeFiles, environ, call, stdout, stderr, exit, trace, ret, cachedAt>>

----------------------------------------------------------------------------
(* Bounds *)

TicksPerSec == 3      \* clock resolution below the second
HourSecs == 1         \* time.Hour, scaled down to whole seconds of the model
MaxTime == 8          \* the clock stops advancing here

\* a credential lifetime of half an hour
Hour_Halved == (HourSecs * TicksPerSec) \div 2

\* a credential lifetime of two hours
Hour_Doubled == 2 * HourSecs * TicksPerSec

\* time.Hour, in ticks
Hour == HourSecs * TicksPerSec

ClusterIDs == {"id1", "id2"}

----------------------------------------------------------------------------
(* Byte strings and base64 *)

\* A base64 text is a sequence of quanta.  "a", "b", "x" are well-formed
\* quanta, "!" is a quantum that is not valid base64.
DecodeQuantum(q) ==
    CASE q = "a" -> "A"
      [] q = "b" -> "B"
      [] q = "x" -> "X"      \* a byte that is not valid UTF-8
      [] OTHER   -> "?"

IsCorrupt(q) == q \notin {"a", "b", "x"}

RECURSIVE DecodeFrom(_, _, _)
DecodeFrom(s, i, acc) ==
    IF i > Len(s) THEN [bytes |-> acc, err |-> FALSE]
    ELSE IF IsCorrupt(s[i]) THEN [bytes |-> acc, err |-> TRUE]
    ELSE DecodeFrom(s, i + 1, Append(acc, DecodeQuantum(s[i])))

\* a decoder that drops the error
DecodeString_Lenient(s) == [DecodeFrom(s, 1, <<>>) EXCEPT !.err = FALSE]

\* b64.StdEncoding.DecodeString: the bytes decoded before the first
\* corrupt quantum, and whether there was one.
DecodeString(s) == DecodeFrom(s, 1, <<>>)

\* encoding/json writes a string coerced to valid UTF-8: every invalid byte
\* becomes U+FFFD ("R").
CoerceUTF8(s) == [i \in 1..Len(s) |-> IF s[i] = "X" THEN "R" ELSE s[i]]

----------------------------------------------------------------------------
(* Timestamps *)

NoTime == -1          \* a nil *metav1.Time
ZeroTime == 0         \* the zero time.Time

\* (*metav1.Time).IsZero
IsZero(t) == t = NoTime \/ t = ZeroTime

\* a Before that also holds of equal times
Before_OrEqual(t, u) == t <= u

\* a Before with its operands exchanged
Before_Swapped(t, u) == u < t

\* time.Time.Before
Before(t, u) == t < u

\* a time format that rounds up to the next whole second
TimeJSON_RoundUp(t) ==
    IF IsZero(t) THEN NoTime ELSE t + ((TicksPerSec - (t % TicksPerSec)) % TicksPerSec)

\* metav1.Time.MarshalJSON followed by UnmarshalJSON: a zero time is
\* written as null and read back as a nil pointer; any other time is
\* written in RFC 3339 form, which has no fraction of a second.
TimeJSON(t) == IF IsZero(t) THEN NoTime ELSE t - (t % TicksPerSec)

----------------------------------------------------------------------------
(* clientauth.ExecCredential *)

ExecCredentialTypeMeta == [Kind |-> "ExecCredential", APIVersion |-> "client.authentication.k8s.io/v1beta1"]
EmptyTypeMeta == [Kind |-> "", APIVersion |-> ""]

NilStatus == [present |-> FALSE, ClientKeyData |-> <<>>, ClientCertificateData |-> <<>>, ExpirationTimestamp |-> NoTime]

MkStatus(key, cert, exp) ==
    [present |-> TRUE, ClientKeyData |-> key, ClientCertificateData |-> cert, ExpirationTimestamp |-> exp]

\* a nil *clientauth.ExecCredential
NilCredential == [isNil |-> TRUE, TypeMeta |-> EmptyTypeMeta, Status |-> NilStatus]

MkCredential(tm, st) == [isNil |-> FALSE, TypeMeta |-> tm, Status |-> st]

----------------------------------------------------------------------------
(* Files of the cache directory *)

AbsentFile == [kind |-> "absent", TypeMeta |-> EmptyTypeMeta, Status |-> NilStatus]
\* content that json.Decoder rejects (not JSON, truncated, empty, wrong type)
GarbageFile == [kind |-> "garbage", TypeMeta |-> EmptyTypeMeta, Status |-> NilStatus]
\* the JSON document null
NullFile == [kind |-> "null", TypeMeta |-> EmptyTypeMeta, Status |-> NilStatus]

ObjectFile(tm, st) == [kind |-> "object", TypeMeta |-> tm, Status |-> st]

\* an encoder that exchanges the key and the certificate
EncodeJSON_Swapped(c) ==
    ObjectFile(c.TypeMeta,
               IF c.Status.present
               THEN MkStatus(CoerceUTF8(c.Status.ClientCertificateData),
                             CoerceUTF8(c.Status.ClientKeyData),
                             TimeJSON(c.Status.ExpirationTimestamp))
               ELSE NilStatus)

\* json.Encoder.Encode / json.MarshalIndent of a non-nil *ExecCredential,
\* given as the JSON document a reader will see.
EncodeJSON(c) ==
    ObjectFile(c.TypeMeta,
               IF c.Status.present
               THEN MkStatus(CoerceUTF8(c.Status.ClientKeyData),
                             CoerceUTF8(c.Status.ClientCertificateData),
                             TimeJSON(c.Status.ExpirationTimestamp))
               ELSE NilStatus)

\* json.Decoder.Decode into a *ExecCredential
DecodeJSON(f) ==
    CASE f.kind = "object" -> [err |-> FALSE, cred |-> MkCredential(f.TypeMeta, f.Status)]
      [] f.kind = "null"   -> [err |-> FALSE, cred |-> NilCredential]
      [] OTHER             -> [err |-> TRUE, cred |-> NilCredential]

----------------------------------------------------------------------------
(* The provider's answer: the kubeConfig parsed from the service's YAML *)

ClusterEntry(name, ca) == [Name |-> name, Server |-> "https://k8s", CertificateAuthorityData |-> ca]
UserEntry(name, cert, key) == [Name |-> name, ClientCertificateData |-> cert, ClientKeyData |-> key]

GoodText == <<"a">>
OtherText == <<"b">>
CorruptText == <<"b", "!">>

ClusterLists ==
    { <<>>,
      <<ClusterEntry("c1", GoodText)>>,
      <<ClusterEntry("c1", CorruptText)>>,
      <<ClusterEntry("c1", GoodText), ClusterEntry("c2", OtherText)>> }

UserLists ==
    { <<>>,
      <<UserEntry("u1", GoodText, OtherText)>>,
      <<UserEntry("u1", OtherText, GoodText)>>,
      <<UserEntry("u1", CorruptText, OtherText)>>,
      <<UserEntry("u1", GoodText, CorruptText)>>,
      <<UserEntry("u1", GoodText, OtherText), UserEntry("u2", OtherText, OtherText)>> }

ContextNames == {"x1", "x2"}

Bundles == [Clusters : ClusterLists, Users : UserLists, CurrentContext : ContextNames]

\* the zero kubeConfig: no credentials in the answer, or YAML that does not parse
EmptyBundle == [Clusters |-> <<>>, Users |-> <<>>, CurrentContext |-> ""]

\* fetchKubeConfigFromProvider: a renew_credentials PATCH, then a GET of the
\* service; the answer is whatever the provider sends.
FetchKubeConfigFromProvider(resp) == [bundle |-> resp, trace |-> <<"renew", "get">>]

----------------------------------------------------------------------------
(* I/O faults the environment may inject into an invocation *)

Faults == {"open", "remove", "mkdir", "create", "write", "kubeconfig"}

\* an invocation meets no fault or one
FaultSets(of) == {{}} \cup {{f} : f \in of}

\* the faults that each operation can meet
LoadFaults == {"open", "remove"}
CacheFaults == {"mkdir", "create", "write"}

----------------------------------------------------------------------------
(* Output streams *)

Text(m) == [kind |-> "text", text |-> m, doc |-> AbsentFile]
Json(d) == [kind |-> "json", text |-> "", doc |-> d]

----------------------------------------------------------------------------
(* The cache functions *)

\* cacheKubeConfig(id, execCredential)
cacheKubeConfig(files, id, c, faults) ==
    IF c.isNil \/ ~c.Status.present
    THEN [panic |-> TRUE, err |-> "", files |-> files, trace |-> <<>>]
    ELSE IF IsZero(c.Status.ExpirationTimestamp)
    THEN [panic |-> FALSE, err |-> "", files |-> files, trace |-> <<>>]
    ELSE IF "mkdir" \in faults
    THEN [panic |-> FALSE, err |-> "mkdir", files |-> files, trace |-> <<>>]
    ELSE IF "create" \in faults
    THEN [panic |-> FALSE, err |-> "create", files |-> files, trace |-> <<>>]
    ELSE IF "write" \in faults
    THEN [panic |-> FALSE, err |-> "write",
          files |-> [files EXCEPT ![id] = GarbageFile], trace |-> <<"truncate">>]
    ELSE [panic |-> FALSE, err |-> "",
          files |-> [files EXCEPT ![id] = EncodeJSON(c)], trace |-> <<"write">>]

\* a loadCachedKubeConfig that reports an expired entry as a miss but leaves
\* the file
loadCachedKubeConfig_KeepsFile(files, id, t, faults) ==
    LET f == files[id]
        d == DecodeJSON(f)
        miss(e) == [panic |-> FALSE, err |-> e, cred |-> NilCredential, files |-> files, trace |-> <<>>]
    IN  IF "open" \in faults THEN miss("open")
        ELSE IF f.kind = "absent" THEN miss("")
        ELSE IF d.err THEN miss("decode")
        ELSE IF d.cred.isNil \/ ~d.cred.Status.present
        THEN [panic |-> TRUE, err |-> "", cred |-> NilCredential, files |-> files, trace |-> <<>>]
        ELSE IF IsZero(d.cred.Status.ExpirationTimestamp)
                \/ Before(d.cred.Status.ExpirationTimestamp, t)
        THEN miss("")
        ELSE [panic |-> FALSE, err |-> "", cred |-> d.cred, files |-> files, trace |-> <<>>]

\* loadCachedKubeConfig(id), called at time t
loadCachedKubeConfig(files, id, t, faults) ==
    LET f == files[id]
        d == DecodeJSON(f)
        miss(e) == [panic |-> FALSE, err |-> e, cred |-> NilCredential, files |-> files, trace |-> <<>>]
    IN  IF "open" \in faults THEN miss("open")
        ELSE IF f.kind = "absent" THEN miss("")
        ELSE IF d.err THEN miss("decode")
        ELSE IF d.cred.isNil \/ ~d.cred.Status.present
        THEN [panic |-> TRUE, err |-> "", cred |-> NilCredential, files |-> files, trace |-> <<>>]
        ELSE IF IsZero(d.cred.Status.ExpirationTimestamp)
                \/ Before(d.cred.Status.ExpirationTimestamp, t)
        THEN IF "remove" \in faults
             THEN miss("remove")
             ELSE [panic |-> FALSE, err |-> "", cred |-> NilCredential,
                   files |-> [files EXCEPT ![id] = AbsentFile], trace |-> <<"remove">>]
        ELSE [panic |-> FALSE, err |-> "", cred |-> d.cred, files |-> files, trace |-> <<>>]

----------------------------------------------------------------------------
(* exec-credential *)

ErrText(e) == IF e = "" THEN <<>> ELSE <<Text(e)>>

\* the body of execCredentialCmd.Run for --cluster id, at time t, when the
\* provider would answer resp
execCredentialCmd(files, id, t, resp, faults) ==
    LET e1 == IF "kubeconfig" \in faults THEN <<Text("kubeconfig")>> ELSE <<>>
        l == loadCachedKubeConfig(files, id, t, faults)
        e2 == e1 \o ErrText(l.err)
    IN  IF l.panic
        THEN [exit |-> "panic", stdout |-> <<>>, stderr |-> e2 \o <<Text("panic")>>,
              files |-> l.files, trace |-> l.trace]
        ELSE IF ~l.cred.isNil
        THEN [exit |-> "returned", stdout |-> <<Json(EncodeJSON(l.cred))>>, stderr |-> e2,
              files |-> l.files, trace |-> l.trace]
        ELSE
        LET p == FetchKubeConfigFromProvider(resp)
            tr == l.trace \o p.trace
        IN  IF Len(p.bundle.Users) = 0
            THEN [exit |-> "returned", stdout |-> <<Text("Error: Could not retrieve kubeconfig")>>,
                  stderr |-> e2, files |-> l.files, trace |-> tr]
            ELSE
            LET u == p.bundle.Users[1]
                k == DecodeString(u.ClientKeyData)
                c == DecodeString(u.ClientCertificateData)
                o1 == (IF k.err THEN <<Text("base64")>> ELSE <<>>)
                      \o (IF c.err THEN <<Text("base64")>> ELSE <<>>)
                cred == MkCredential(ExecCredentialTypeMeta, MkStatus(k.bytes, c.bytes, t + Hour))
                w == cacheKubeConfig(l.files, id, cred, faults)
            IN  [exit |-> "returned", stdout |-> o1 \o <<Json(EncodeJSON(cred))>>,
                 stderr |-> e2 \o ErrText(w.err), files |-> w.files, trace |-> tr \o w.trace]

----------------------------------------------------------------------------
(* kubeconfig files: clientcmdapi.Config *)

Paths == {"flagPath", "envPath", "defaultPath"}

\* an empty map of a Config
EmptyMap == [x \in {} |-> TRUE]

\* m[k] = v of a Go map
SetEntry_KeepExisting(m, k, v) == [x \in DOMAIN m \cup {k} |-> IF x \in DOMAIN m THEN m[x] ELSE v]

\* m[k] = v on a Go map
SetEntry(m, k, v) == [x \in DOMAIN m \cup {k} |-> IF x = k THEN v ELSE m[x]]

\* clientcmdapi.NewConfig()
EmptyConfig == [Clusters |-> EmptyMap, AuthInfos |-> EmptyMap, Contexts |-> EmptyMap, CurrentContext |-> ""]

NoExec == [set |-> FALSE, APIVersion |-> "", Command |-> "", Args |-> <<>>]

\* the zero clientcmdapi.AuthInfo
EmptyAuthInfo ==
    [ClientCertificate |-> <<>>, ClientKey |-> <<>>,
     ClientCertificateData |-> <<>>, ClientKeyData |-> <<>>, Exec |-> NoExec]

AbsentKubeFile == [kind |-> "absent", config |-> EmptyConfig]
KubeFile(cfg) == [kind |-> "file", config |-> cfg]

\* a kubeconfig that already describes another cluster and an older user u1
PreexistingConfig ==
    [Clusters |-> SetEntry(EmptyMap, "c2", [Server |-> "https://other", CertificateAuthorityData |-> <<"B">>]),
     AuthInfos |-> SetEntry(SetEntry(EmptyMap, "u2",
                      [EmptyAuthInfo EXCEPT !.ClientCertificateData = <<"B">>, !.ClientKeyData = <<"B">>]),
                      "u1", [EmptyAuthInfo EXCEPT !.ClientCertificate = <<"old.crt">>, !.ClientKey = <<"old.key">>]),
     Contexts |-> SetEntry(EmptyMap, "x2", [Cluster |-> "c2", AuthInfo |-> "u2"]),
     CurrentContext |-> "x2"]

\* a fileExists that finds no file
fileExists_Never(files, p) == FALSE

\* fileExists(filename)
fileExists(files, p) == files[p].kind = "file"

\* the file that pathOptions reads and ModifyConfig writes: the one named by
\* KUBECONFIG if that is set, else pathOptions.GlobalFile, which is the
\* --kubeconfig flag if given and the default location if not
ResolvedPath(env) ==
    IF env.KUBECONFIG # "" THEN env.KUBECONFIG
    ELSE IF env.kubeconfigFlag # "" THEN env.kubeconfigFlag
    ELSE "defaultPath"

\* a choice of the path that lets KUBECONFIG win over the flag
CreatedPath_EnvFirst(env) == IF env.KUBECONFIG # "" THEN env.KUBECONFIG ELSE env.kubeconfigFlag

\* the path that save-kubeconfig creates if missing: kubeConfigEnv
CreatedPath(env) == IF env.kubeconfigFlag # "" THEN env.kubeconfigFlag ELSE env.KUBECONFIG

\* a starting configuration that is always new
GetStartingConfig_New(files, env) == EmptyConfig

\* pathOptions.GetStartingConfig(): a missing file gives an empty Config
GetStartingConfig(files, env) == files[ResolvedPath(env)].config

\* clientcmd.ModifyConfig(pathOptions, config, true)
ModifyConfig(files, env, cfg) == [files EXCEPT ![ResolvedPath(env)] = KubeFile(cfg)]

\* a test that rejects only a bundle without clusters and without users
InvalidBundle_Both(b) == Len(b.Clusters) = 0 /\ Len(b.Users) = 0

\* the test of the bundle at line 68
InvalidBundle(b) == Len(b.Clusters) = 0 \/ Len(b.Users) = 0

\* the context entry stored under the current context of the file
ContextKey_Current(cfg, b) == cfg.CurrentContext

\* the name under which the context entry is stored
ContextKey(cfg, b) == b.CurrentContext

\* cliPath(): the path of the running executable
cliPath == "cliPath"

\* an exec reference that passes the account where the cluster id belongs
ExecReference_Account(id) ==
    [set |-> TRUE, APIVersion |-> "client.authentication.k8s.io/v1beta1", Command |-> cliPath,
     Args |-> <<"--config", "cfgFile", "--account", "account",
                "kubernetes", "cluster", "exec-credential", "--cluster", "account">>]

\* the exec reference written in credential-plugin mode
ExecReference(id) ==
    [set |-> TRUE, APIVersion |-> "client.authentication.k8s.io/v1beta1", Command |-> cliPath,
     Args |-> <<"--config", "cfgFile", "--account", "account",
                "kubernetes", "cluster", "exec-credential", "--cluster", id>>]

\* a user entry with the certificate and the key in each other's place
EmbeddedAuthInfo_Swapped(cert, key) ==
    [EmptyAuthInfo EXCEPT !.ClientCertificateData = key, !.ClientKeyData = cert]

\* the user entry written in embedded mode from the decoded certificate and key
EmbeddedAuthInfo(cert, key) ==
    [EmptyAuthInfo EXCEPT !.ClientCertificateData = cert, !.ClientKeyData = key]

SaveFaults == {"create", "load", "modify"}

\* the body of saveKubeconfigCmd.Run for --cluster id, with or without
\* --credential-plugin, when the provider would answer resp
saveKubeconfigCmd(files, env, id, plugin, resp, faults) ==
    LET fail(fs, tr, m) == [exit |-> "exit1", stdout |-> <<>>, stderr |-> <<Text(m)>>, files |-> fs, trace |-> tr]
        cp == CreatedPath(env)
        mustCreate == cp # "" /\ ~fileExists(files, cp)
        f1 == IF mustCreate THEN [files EXCEPT ![cp] = KubeFile(EmptyConfig)] ELSE files
        t1 == IF mustCreate THEN <<"create">> ELSE <<>>
        p == FetchKubeConfigFromProvider(resp)
        tl == t1 \o <<"load">>
        t2 == tl \o p.trace
        b == p.bundle
    IN  IF mustCreate /\ "create" \in faults THEN fail(files, <<>>, "create")
        ELSE IF "load" \in faults THEN fail(f1, tl, "load")
        ELSE IF InvalidBundle(b) THEN fail(f1, t2, "Error: Invaild kubeconfig")
        ELSE IF Len(b.Clusters) = 0 \/ Len(b.Users) = 0
        THEN [exit |-> "panic", stdout |-> <<>>, stderr |-> <<Text("panic")>>, files |-> f1, trace |-> t2]
        ELSE
        LET c == b.Clusters[1]
            u == b.Users[1]
            ca == DecodeString(c.CertificateAuthorityData)
            cert == DecodeString(u.ClientCertificateData)
            key == DecodeString(u.ClientKeyData)
            k0 == GetStartingConfig(f1, env)
            k1 == [k0 EXCEPT !.Clusters = SetEntry(@, c.Name,
                        [Server |-> c.Server, CertificateAuthorityData |-> ca.bytes])]
            k2 == [k1 EXCEPT !.AuthInfos = SetEntry(@, u.Name,
                        [EmptyAuthInfo EXCEPT !.ClientCertificate = u.ClientKeyData,
                                              !.ClientKey = u.ClientCertificateData])]
            k3 == IF plugin
                  THEN [k2 EXCEPT !.AuthInfos = SetEntry(@, u.Name,
                            [EmptyAuthInfo EXCEPT !.Exec = ExecReference(id)])]
                  ELSE [k2 EXCEPT !.AuthInfos = SetEntry(@, u.Name,
                            EmbeddedAuthInfo(cert.bytes, key.bytes))]
            k4 == [k3 EXCEPT !.Contexts = SetEntry(@, ContextKey(k3, b),
                        [Cluster |-> c.Name, AuthInfo |-> u.Name])]
            k5 == [k4 EXCEPT !.CurrentContext = b.CurrentContext]
        IN  IF ca.err THEN fail(f1, t2, "base64")
            ELSE IF ~plugin /\ cert.err THEN fail(f1, t2, "base64")
            ELSE IF ~plugin /\ key.err THEN fail(f1, t2, "base64")
            ELSE IF "modify" \in faults THEN fail(f1, t2, "modify")
            ELSE [exit |-> "returned", stdout |-> <<>>, stderr |-> <<>>,
                  files |-> ModifyConfig(f1, env, k5), trace |-> t2 \o <<"modify">>]

----------------------------------------------------------------------------
(* State *)

NoCall ==
    [op |-> "none", id |-> "", bundle |-> EmptyBundle, faults |-> {}, cred |-> NilCredential,
     plugin |-> FALSE, repeat |-> FALSE]

NoEnviron == [KUBECONFIG |-> "", kubeconfigFlag |-> ""]
NoRet == [cred |-> NilCredential, err |-> ""]

Idle ==
    /\ call' = NoCall
    /\ stdout' = <<>>
    /\ stderr' = <<>>
    /\ exit' = "none"
    /\ trace' = <<>>
    /\ ret' = NoRet

\* history of the cache files: for each cluster, whether its cache file holds
\* a record that exec-credential fetched, when it was fetched and what was
\* written.  It is kept only in sessions that start it (on).
NotCached == [set |-> FALSE, time |-> NoTime, doc |-> AbsentFile]
NoHistory == [on |-> FALSE, of |-> [i \in ClusterIDs |-> NotCached]]

Track(h, i, t, before, after, tr) ==
    IF ~h.on THEN h
    ELSE IF \E n \in DOMAIN tr : tr[n] = "write"
    THEN [h EXCEPT !.of[i] = [set |-> TRUE, time |-> t, doc |-> after[i]]]
    ELSE IF after[i] # before[i] THEN [h EXCEPT !.of[i] = NotCached]
    ELSE h

\* what may lie in the cache directory that this tool did not write
ForeignFiles ==
    { GarbageFile, NullFile, ObjectFile(ExecCredentialTypeMeta, NilStatus) }
    \cup { ObjectFile(ExecCredentialTypeMeta, MkStatus(<<"B">>, <<"B">>, e)) :
             e \in {NoTime, ZeroTime, 2 * TicksPerSec, 2 * TicksPerSec + 1} }

\* records a caller may hand to cacheKubeConfig
RecordTimes == {NoTime, ZeroTime, 2 * TicksPerSec, 2 * TicksPerSec + 1, 2 * TicksPerSec + 2}

Records ==
    { MkCredential(ExecCredentialTypeMeta, MkStatus(<<"A">>, <<"B">>, e)) : e \in RecordTimes }
    \cup { MkCredential(EmptyTypeMeta, MkStatus(<<"A", "X">>, <<>>, e)) : e \in RecordTimes }

\* the clock at the start: past the first second, between two seconds
InitTime == TicksPerSec + 1

Init ==
    /\ now = InitTime
    /\ cacheFiles = [i \in ClusterIDs |-> AbsentFile]
    /\ kubeFiles = [p \in Paths |-> AbsentKubeFile]
    /\ environ = NoEnviron
    /\ call = NoCall
    /\ stdout = <<>>
    /\ stderr = <<>>
    /\ exit = "none"
    /\ trace = <<>>
    /\ ret = NoRet
    /\ cachedAt = NoHistory

\* time passes between invocations
Tick ==
    /\ now < MaxTime
    /\ now' = now + 1
    /\ Idle
    /\ UNCHANGED <<cacheFiles, kubeFiles, environ, cachedAt>>

\* somebody else puts a file into the cache directory
ForeignWrite ==
    /\ \E i \in ClusterIDs, f \in ForeignFiles : cacheFiles' = [cacheFiles EXCEPT ![i] = f]
    /\ Idle
    /\ UNCHANGED <<now, kubeFiles, environ, cachedAt>>

ExecCredential ==
    \E i \in ClusterIDs, u \in UserLists, fs \in FaultSets(Faults) :
        LET resp == [Clusters |-> <<ClusterEntry("c1", GoodText)>>, Users |-> u, CurrentContext |-> "x1"]
        IN  \E r \in {execCredentialCmd(cacheFiles, i, now, resp, fs)} :
            /\ call' = [NoCall EXCEPT !.op = "exec-credential", !.id = i, !.bundle = resp, !.faults = fs]
            /\ cacheFiles' = r.files
            /\ stdout' = r.stdout
            /\ stderr' = r.stderr
            /\ exit' = r.exit
            /\ trace' = r.trace
            /\ ret' = NoRet
            /\ cachedAt' = Track(cachedAt, i, now, cacheFiles, r.files, r.trace)
            /\ UNCHANGED <<now, kubeFiles, environ>>

\* a direct call of cacheKubeConfig
CacheKubeConfig ==
    \E i \in ClusterIDs, c \in Records, fs \in FaultSets(CacheFaults) :
        \E r \in {cacheKubeConfig(cacheFiles, i, c, fs)} :
            /\ call' = [NoCall EXCEPT !.op = "cacheKubeConfig", !.id = i, !.cred = c, !.faults = fs]
            /\ cacheFiles' = r.files
            /\ stdout' = <<>>
            /\ stderr' = <<>>
            /\ exit' = IF r.panic THEN "panic" ELSE "returned"
            /\ trace' = r.trace
            /\ ret' = [cred |-> NilCredential, err |-> r.err]
            /\ UNCHANGED <<now, kubeFiles, environ, cachedAt>>

\* a direct call of loadCachedKubeConfig
LoadCachedKubeConfig ==
    \E i \in ClusterIDs, fs \in FaultSets(LoadFaults) :
        \E r \in {loadCachedKubeConfig(cacheFiles, i, now, fs)} :
            /\ call' = [NoCall EXCEPT !.op = "loadCachedKubeConfig", !.id = i, !.faults = fs]
            /\ cacheFiles' = r.files
            /\ stdout' = <<>>
            /\ stderr' = <<>>
            /\ exit' = IF r.panic THEN "panic" ELSE "returned"
            /\ trace' = r.trace
            /\ ret' = [cred |-> r.cred, err |-> r.err]
            /\ UNCHANGED <<now, kubeFiles, environ, cachedAt>>

\* cacheKubeConfig(id, r) and at once loadCachedKubeConfig(id)
RoundTrip ==
    \E i \in ClusterIDs, c \in Records :
        \E w \in {cacheKubeConfig(cacheFiles, i, c, {})} :
        \E r \in {loadCachedKubeConfig(w.files, i, now, {})} :
            /\ ~w.panic
            /\ call' = [NoCall EXCEPT !.op = "roundtrip", !.id = i, !.cred = c]
            /\ cacheFiles' = r.files
            /\ stdout' = <<>>
            /\ stderr' = <<>>
            /\ exit' = IF r.panic THEN "panic" ELSE "returned"
            /\ trace' = w.trace \o r.trace
            /\ ret' = [cred |-> r.cred, err |-> r.err]
            /\ UNCHANGED <<now, kubeFiles, environ, cachedAt>>

\* the provider's answers tried on save-kubeconfig: a well-formed one, and
\* those that differ from it in the clusters, in the users or in the context
BaseClusters == <<ClusterEntry("c1", GoodText)>>
BaseUsers == <<UserEntry("u1", GoodText, OtherText)>>

SaveBundles ==
    { b \in Bundles :
        \/ b.Users = BaseUsers /\ b.CurrentContext = "x1"
        \/ b.Clusters = BaseClusters /\ b.CurrentContext = "x1"
        \/ b.Clusters = BaseClusters /\ b.Users = BaseUsers
        \/ b.Clusters = <<>> /\ b.Users = <<>> }

\* a session of save-kubeconfig runs: the environment and the --kubeconfig
\* flag are those of the session, the files are there or not
InitSave ==
    /\ now = InitTime
    /\ cacheFiles = [i \in ClusterIDs |-> AbsentFile]
    /\ environ \in [KUBECONFIG : {"", "envPath"}, kubeconfigFlag : {"", "flagPath"}]
    /\ kubeFiles \in {[p \in Paths |-> AbsentKubeFile], [p \in Paths |-> KubeFile(PreexistingConfig)]}
    /\ call = NoCall
    /\ stdout = <<>>
    /\ stderr = <<>>
    /\ exit = "none"
    /\ trace = <<>>
    /\ ret = NoRet
    /\ cachedAt = NoHistory

SaveKubeconfig ==
    \E i \in ClusterIDs, pl \in BOOLEAN, b \in SaveBundles, fs \in FaultSets(SaveFaults) :
        \E r \in {saveKubeconfigCmd(kubeFiles, environ, i, pl, b, fs)} :
        \E c \in {[NoCall EXCEPT !.op = "save-kubeconfig", !.id = i, !.plugin = pl, !.bundle = b, !.faults = fs]} :
            /\ call' = [c EXCEPT !.repeat = (exit = "returned" /\ [call EXCEPT !.repeat = FALSE] = c)]
            /\ kubeFiles' = r.files
            /\ stdout' = r.stdout
            /\ stderr' = r.stderr
            /\ exit' = r.exit
            /\ trace' = r.trace
            /\ ret' = NoRet
            /\ UNCHANGED <<now, cacheFiles, environ, cachedAt>>

\* somebody else removes the kubeconfig files
RemoveKubeFiles ==
    /\ kubeFiles' = [p \in Paths |-> AbsentKubeFile]
    /\ Idle
    /\ UNCHANGED <<now, cacheFiles, environ, cachedAt>>

NextSave == SaveKubeconfig \/ RemoveKubeFiles

SpecSave == InitSave /\ [][NextSave]_vars

\* the cache functions called on their own
NextCache == Tick \/ ForeignWrite \/ CacheKubeConfig \/ LoadCachedKubeConfig \/ RoundTrip

SpecCache == Init /\ [][NextCache]_vars

\* exec-credential invocations over a cache directory that starts empty and
\* that nobody else writes to
InitTool ==
    /\ now = InitTime
    /\ cacheFiles = [i \in ClusterIDs |-> AbsentFile]
    /\ kubeFiles = [p \in Paths |-> AbsentKubeFile]
    /\ environ = NoEnviron
    /\ call = NoCall
    /\ stdout = <<>>
    /\ stderr = <<>>
    /\ exit = "none"
    /\ trace = <<>>
    /\ ret = NoRet
    /\ cachedAt = [NoHistory EXCEPT !.on = TRUE]

NextTool == Tick \/ ExecCredential

SpecTool == InitTool /\ [][NextTool]_vars

\* exec-credential invocations over a cache directory others may write to
NextExec == Tick \/ ForeignWrite \/ ExecCredential

SpecExec == Init /\ [][NextExec]_vars

----------------------------------------------------------------------------
(* Properties *)

Range(q) == {q[n] : n \in DOMAIN q}

\* a cache entry with an expiration timestamp
HasExpiry(f) == f.kind = "object" /\ f.Status.present /\ ~IsZero(f.Status.ExpirationTimestamp)

\* this step is a call of loadCachedKubeConfig(i) that meets no I/O fault
LoadStep(i) == call'.op = "loadCachedKubeConfig" /\ call'.id = i /\ call'.faults = {}

LoadHit(i) == ret'.cred = DecodeJSON(cacheFiles[i]).cred /\ cacheFiles' = cacheFiles
LoadMiss(i) == ret'.cred = NilCredential /\ cacheFiles' = [cacheFiles EXCEPT ![i] = AbsentFile]

\* C1 as claimed: read strictly before t is a hit, read at t or after t is a
\* miss that deletes the file.
C1_AsClaimed ==
    [][\A i \in ClusterIDs :
         LoadStep(i) /\ HasExpiry(cacheFiles[i]) =>
            IF now < cacheFiles[i].Status.ExpirationTimestamp THEN LoadHit(i) ELSE LoadMiss(i)]_vars

\* C1 (amended): for every cache entry with expiration timestamp t, a
\* loadCachedKubeConfig that meets no I/O fault returns the cached record
\* unchanged and leaves the file in place when called at a time before t or
\* equal to t, and returns a cache miss and deletes the file when called at a
\* time strictly after t.
C1_ExpiryBoundary ==
    [][\A i \in ClusterIDs :
         LoadStep(i) /\ HasExpiry(cacheFiles[i]) =>
            IF now <= cacheFiles[i].Status.ExpirationTimestamp THEN LoadHit(i) ELSE LoadMiss(i)]_vars

\* a read at exactly the expiration time has returned the record
C1_Witness ==
    /\ call.op = "loadCachedKubeConfig"
    /\ call.faults = {}
    /\ ~ret.cred.isNil
    /\ ret.cred.Status.ExpirationTimestamp = now
    /\ cacheFiles[call.id] = EncodeJSON(ret.cred)

\* the failures of an exec-credential run that C2 names
ExecFetched == "get" \in Range(trace)
ExecDecodeError ==
    /\ ExecFetched
    /\ Len(call.bundle.Users) # 0
    /\ \/ DecodeString(call.bundle.Users[1].ClientKeyData).err
       \/ DecodeString(call.bundle.Users[1].ClientCertificateData).err
ExecCacheIOError ==
    \E m \in Range(stderr) : m.text \in {"open", "decode", "remove", "mkdir", "create", "write"}
ExecFailed ==
    \/ exit = "panic"
    \/ ExecFetched /\ Len(call.bundle.Users) = 0
    \/ ExecDecodeError
    \/ ExecCacheIOError

\* C2: after every exec-credential run, standard output holds exactly one
\* JSON credential document if the run succeeded and nothing if it failed;
\* no diagnostic text is ever on standard output.
C2_StdoutContract ==
    call.op = "exec-credential" =>
        /\ \A m \in Range(stdout) : m.kind = "json"
        /\ IF ExecFailed THEN stdout = <<>> ELSE Len(stdout) = 1

\* the record of a round trip has its expiration set and in the future
RoundTripCase ==
    /\ call.op = "roundtrip"
    /\ ~IsZero(call.cred.Status.ExpirationTimestamp)
    /\ call.cred.Status.ExpirationTimestamp > now

\* C3 as claimed: the record read back equals the record written.
C3_AsClaimed == RoundTripCase => ret.cred = call.cred

\* C3 (amended): cacheKubeConfig(id, r) followed at once by
\* loadCachedKubeConfig(id), for r with expiration set and in the future and
\* no I/O fault, returns a record with r's type meta, r's client key data and
\* client certificate data in which every byte that is not valid UTF-8 is
\* replaced by U+FFFD, and r's expiration truncated to the whole second; if
\* the truncated expiration lies before the time of the read, the read is a
\* cache miss and the file is deleted.
C3_RoundTrip ==
    RoundTripCase =>
        IF TimeJSON(call.cred.Status.ExpirationTimestamp) < now
        THEN ret.cred = NilCredential /\ cacheFiles[call.id] = AbsentFile
        ELSE /\ ~ret.cred.isNil
             /\ ret.cred.TypeMeta = call.cred.TypeMeta
             /\ ret.cred.Status.present
             /\ ret.cred.Status.ClientKeyData = CoerceUTF8(call.cred.Status.ClientKeyData)
             /\ ret.cred.Status.ClientCertificateData = CoerceUTF8(call.cred.Status.ClientCertificateData)
             /\ ret.cred.Status.ExpirationTimestamp
                  = call.cred.Status.ExpirationTimestamp - (call.cred.Status.ExpirationTimestamp % TicksPerSec)

\* a round trip has returned the very record it wrote
C3_Witness == RoundTripCase /\ ~ret.cred.isNil /\ ret.cred = call.cred

\* a round trip has lost the record: its expiration, truncated, was past
C3_WitnessTruncatedPast == RoundTripCase /\ ret.cred = NilCredential

\* this step is an exec-credential run for cluster i that meets no I/O fault
ExecStep(i) == call'.op = "exec-credential" /\ call'.id = i /\ call'.faults = {}

\* one hour of the clock
OneHour == HourSecs * TicksPerSec

\* the JSON documents on standard output after this step
PrintedDocs == {m.doc : m \in {n \in Range(stdout') : n.kind = "json"}}

\* the credential that the first user of the provider's answer decodes to
FetchedKey == CoerceUTF8(DecodeString(call'.bundle.Users[1].ClientKeyData).bytes)
FetchedCert == CoerceUTF8(DecodeString(call'.bundle.Users[1].ClientCertificateData).bytes)

FetchedAndCached(i, exp) ==
    /\ trace' \in {<<"renew", "get", "write">>, <<"remove", "renew", "get", "write">>}
    /\ cacheFiles' = [cacheFiles EXCEPT ![i] =
                        ObjectFile(ExecCredentialTypeMeta, MkStatus(FetchedKey, FetchedCert, exp))]
    /\ PrintedDocs = {cacheFiles'[i]}

\* C8 as claimed: the cache file holds fetch time plus one hour.
C8_AsClaimed ==
    [][\A i \in ClusterIDs :
         ExecStep(i) /\ cacheFiles[i] = AbsentFile /\ Len(call'.bundle.Users) >= 1 =>
            FetchedAndCached(i, now + OneHour)]_vars

\* C8 (amended): an exec-credential run that meets no I/O fault, for a
\* cluster id whose cache file is absent, with a provider answer of at least
\* one user, performs a provider fetch, writes the cache file of the cluster
\* with expiration equal to the fetch time plus one hour truncated to the
\* whole second, and prints a JSON object whose status holds the client key
\* data and client certificate data of the first user; the printed record
\* equals the cached record.
C8_FetchAndCache ==
    [][\A i \in ClusterIDs :
         ExecStep(i) /\ cacheFiles[i] = AbsentFile /\ Len(call'.bundle.Users) >= 1 =>
            /\ FetchedAndCached(i, (now + OneHour) - ((now + OneHour) % TicksPerSec))
            /\ trace' = <<"renew", "get", "write">>]_vars

\* a run has fetched and cached with no cache file before it
C8_Witness ==
    /\ call.op = "exec-credential"
    /\ call.faults = {}
    /\ stderr = <<>>
    /\ trace = <<"renew", "get", "write">>
    /\ stdout = <<Json(cacheFiles[call.id])>>
    /\ cacheFiles[call.id].Status.ExpirationTimestamp > now

\* a cache entry whose expiration is in the future at time t
Fresh(f, t) == HasExpiry(f) /\ f.Status.ExpirationTimestamp > t

\* a cache entry whose expiration is in the past at time t
Expired(f, t) == HasExpiry(f) /\ f.Status.ExpirationTimestamp < t

\* C9: an exec-credential run that can open the cache file of its cluster and
\* finds in it a record whose expiration is in the future issues no request
\* to the provider, neither rewrites nor deletes a cache file, and prints
\* exactly one JSON document, with the cached record's type meta, client key
\* data, client certificate data and expiration (in its whole-second JSON
\* form).
C9_CacheHit ==
    [][\A i \in ClusterIDs :
         /\ call'.op = "exec-credential" /\ call'.id = i /\ "open" \notin call'.faults
         /\ Fresh(cacheFiles[i], now)
         => /\ trace' = <<>>
            /\ cacheFiles' = cacheFiles
            /\ stdout' = <<Json(ObjectFile(cacheFiles[i].TypeMeta,
                                 MkStatus(cacheFiles[i].Status.ClientKeyData,
                                          cacheFiles[i].Status.ClientCertificateData,
                                          cacheFiles[i].Status.ExpirationTimestamp
                                            - (cacheFiles[i].Status.ExpirationTimestamp % TicksPerSec))))>>]_vars

\* a run has printed the cached record without a request
C9_Witness ==
    /\ call.op = "exec-credential"
    /\ exit = "returned"
    /\ trace = <<>>
    /\ stdout = <<Json(cacheFiles[call.id])>>
    /\ cacheFiles[call.id].Status.ExpirationTimestamp > now

\* C10: an exec-credential run that meets no I/O fault and finds in the cache
\* file of its cluster a record whose expiration is in the past first deletes
\* the file and then fetches from the provider; when the answer has a user,
\* the values of that user (not the expired record) are printed and written
\* to the cache with expiration one hour after the fetch (to the whole
\* second); when it has none, no credential is printed and the cache file
\* stays deleted.
C10_ExpiredRefetch ==
    [][\A i \in ClusterIDs :
         ExecStep(i) /\ Expired(cacheFiles[i], now) =>
            /\ Len(trace') >= 3
            /\ SubSeq(trace', 1, 3) = <<"remove", "renew", "get">>
            /\ IF Len(call'.bundle.Users) >= 1
               THEN /\ FetchedAndCached(i, (now + OneHour) - ((now + OneHour) % TicksPerSec))
                    /\ cacheFiles[i] \notin PrintedDocs
                    /\ cacheFiles'[i].Status.ExpirationTimestamp > cacheFiles[i].Status.ExpirationTimestamp
               ELSE /\ PrintedDocs = {}
                    /\ cacheFiles' = [cacheFiles EXCEPT ![i] = AbsentFile]]_vars

\* a run has replaced an expired record by a newly fetched one
C10_Witness ==
    /\ call.op = "exec-credential"
    /\ call.faults = {}
    /\ trace = <<"remove", "renew", "get", "write">>
    /\ stdout = <<Json(cacheFiles[call.id])>>
    /\ cacheFiles[call.id].Status.ClientKeyData
         = DecodeString(call.bundle.Users[1].ClientKeyData).bytes

\* this step is a save-kubeconfig run
SaveStep == call'.op = "save-kubeconfig"

\* the entries and the current-context pointer of every kubeconfig are as before
EntriesUnchanged == \A p \in Paths : kubeFiles'[p].config = kubeFiles[p].config

\* C4: a save-kubeconfig run whose provider bundle has zero clusters or zero
\* users ends with an error on standard error and a non-zero exit, and adds
\* no cluster, user or context entry to a kubeconfig nor changes a
\* current-context pointer.
C4_RejectsEmptyBundle ==
    [][SaveStep /\ (Len(call'.bundle.Clusters) = 0 \/ Len(call'.bundle.Users) = 0) =>
         /\ exit' = "exit1"
         /\ stdout' = <<>>
         /\ stderr' # <<>>
         /\ call'.faults = {} => stderr' = <<Text("Error: Invaild kubeconfig")>>
         /\ EntriesUnchanged]_vars

\* a bundle with users but no cluster has been rejected, and the kubeconfig
\* still holds what it held
C4_Witness ==
    /\ call.op = "save-kubeconfig"
    /\ Len(call.bundle.Clusters) = 0
    /\ Len(call.bundle.Users) > 0
    /\ exit = "exit1"
    /\ stderr = <<Text("Error: Invaild kubeconfig")>>
    /\ kubeFiles[ResolvedPath(environ)] = KubeFile(PreexistingConfig)

\* a save-kubeconfig run with no I/O fault and a bundle with a cluster and a user
SaveDecodes ==
    /\ call.op = "save-kubeconfig"
    /\ call.faults = {}
    /\ Len(call.bundle.Clusters) > 0
    /\ Len(call.bundle.Users) > 0

Malformed(t) == \E n \in DOMAIN t : t[n] \notin {"a", "b", "x"}
BadCA == Malformed(call.bundle.Clusters[1].CertificateAuthorityData)
BadCert == Malformed(call.bundle.Users[1].ClientCertificateData)
BadKey == Malformed(call.bundle.Users[1].ClientKeyData)

DecodeFailure == exit = "exit1" /\ stderr = <<Text("base64")>>

\* C5 as claimed: any malformed field fails the run, in both modes.
C5_AsClaimed == SaveDecodes /\ (BadCA \/ BadCert \/ BadKey) => DecodeFailure

\* C5 (amended): save-kubeconfig fails with a decode error whenever the
\* certificate-authority data of the bundle is malformed base64, in both auth
\* modes, and whenever the client-certificate data or the client-key data is
\* malformed base64 in embedded mode; with --credential-plugin the client
\* certificate and key are not decoded and malformed ones do not fail the run.
C5_DecodeErrors ==
    SaveDecodes => (DecodeFailure <=> (BadCA \/ (~call.plugin /\ (BadCert \/ BadKey))))

\* an embedded-mode run has failed on a malformed client key
C5_Witness ==
    /\ SaveDecodes /\ ~call.plugin
    /\ BadKey /\ ~BadCA /\ ~BadCert
    /\ DecodeFailure

\* a credential-plugin run has succeeded with a malformed client certificate
C5_WitnessPlugin == SaveDecodes /\ call.plugin /\ BadCert /\ exit = "returned"

\* this step is a save-kubeconfig run that ends in a decode or validation failure
SaveRejected ==
    /\ SaveStep
    /\ exit' = "exit1"
    /\ stderr' \in {<<Text("base64")>>, <<Text("Error: Invaild kubeconfig")>>}

\* C6 as claimed: after such a run every kubeconfig path is as before.
C6_AsClaimed == [][SaveRejected => kubeFiles' = kubeFiles]_vars

\* C6 (amended): whenever a save-kubeconfig run ends in a decode or
\* validation failure, every kubeconfig file holds after the run what it
\* held before it, except that an empty file has been created at the path
\* given by --kubeconfig (or, without the flag, by KUBECONFIG) if there was
\* no file at that path.
C6_NoPartialWrite ==
    [][SaveRejected =>
         \A p \in Paths :
            \/ kubeFiles'[p] = kubeFiles[p]
            \/ /\ p = (IF environ.kubeconfigFlag # "" THEN environ.kubeconfigFlag ELSE environ.KUBECONFIG)
               /\ kubeFiles[p] = AbsentKubeFile
               /\ kubeFiles'[p] = KubeFile(EmptyConfig)]_vars

\* a run has ended in a decode failure over a kubeconfig that holds entries
C6_Witness ==
    /\ call.op = "save-kubeconfig"
    /\ DecodeFailure
    /\ kubeFiles[ResolvedPath(environ)] = KubeFile(PreexistingConfig)

\* the inputs of an invocation
Inputs(c) == [c EXCEPT !.repeat = FALSE]

\* C7: a save-kubeconfig run that follows a successful run with the same
\* bundle, the same auth mode and the same cluster id succeeds and leaves
\* every kubeconfig file as the first run left it.
C7_MergeIdempotent ==
    [][/\ call.op = "save-kubeconfig" /\ exit = "returned"
       /\ SaveStep /\ Inputs(call') = Inputs(call)
       => exit' = "returned" /\ kubeFiles' = kubeFiles]_vars

\* the same merge has run twice in a row
C7_Witness ==
    /\ call.op = "save-kubeconfig"
    /\ call.repeat
    /\ exit = "returned"
    /\ kubeFiles[ResolvedPath(environ)].config.CurrentContext = call.bundle.CurrentContext

----------------------------------------------------------------------------
(* save-kubeconfig: what a successful run leaves in the kubeconfig *)

\* a save-kubeconfig run has returned normally
SaveSucceeded == call.op = "save-kubeconfig" /\ exit = "returned"

\* the configuration in the file that the client library reads and writes
SavedConfig == kubeFiles[ResolvedPath(environ)].config

\* the user entry named after the first user of the bundle
SavedUser == SavedConfig.AuthInfos[call.bundle.Users[1].Name]

\* s holds the elements of t next to each other, in order
Contains(s, t) ==
    \E n \in 0..(Len(s) - Len(t)) : SubSeq(s, n + 1, n + Len(t)) = t

\* C11: after a successful save-kubeconfig --cluster id --credential-plugin
\* the user entry named after the bundle's user holds no client certificate
\* and no client key, as data or as a file path, and holds an exec reference
\* whose command is the path of this tool and whose arguments contain
\* exec-credential --cluster id with the same id.
C11_PluginUserEntry ==
    SaveSucceeded /\ call.plugin =>
        /\ call.bundle.Users[1].Name \in DOMAIN SavedConfig.AuthInfos
        /\ SavedUser.ClientCertificate = <<>>
        /\ SavedUser.ClientKey = <<>>
        /\ SavedUser.ClientCertificateData = <<>>
        /\ SavedUser.ClientKeyData = <<>>
        /\ SavedUser.Exec.set
        /\ SavedUser.Exec.Command = cliPath
        /\ Contains(SavedUser.Exec.Args, <<"exec-credential", "--cluster", call.id>>)

\* a plugin-mode run for the second cluster id has replaced the older user
\* entry u1, which named certificate and key files
C11_Witness ==
    /\ SaveSucceeded
    /\ call.plugin
    /\ call.id = "id2"
    /\ call.bundle.Users[1].Name = "u1"
    /\ SavedConfig.Clusters # EmptyMap /\ "c2" \in DOMAIN SavedConfig.Clusters
    /\ SavedUser.Exec.set

\* C12: after every successful save-kubeconfig run, in either mode, the
\* kubeconfig holds a context entry under the bundle's current context that
\* binds the name of the bundle's first cluster to the name of its first
\* user, both names are keys of the cluster and the user entries, and the
\* current-context pointer is the bundle's current context.
C12_ContextBinding ==
    SaveSucceeded =>
        LET b == call.bundle
        IN  /\ b.CurrentContext \in DOMAIN SavedConfig.Contexts
            /\ SavedConfig.Contexts[b.CurrentContext] =
                    [Cluster |-> b.Clusters[1].Name, AuthInfo |-> b.Users[1].Name]
            /\ b.Clusters[1].Name \in DOMAIN SavedConfig.Clusters
            /\ b.Users[1].Name \in DOMAIN SavedConfig.AuthInfos
            /\ SavedConfig.CurrentContext = b.CurrentContext

\* a run whose bundle declares the context x2, which the kubeconfig had bound
\* to another cluster and another user, has rebound it
C12_Witness ==
    /\ SaveSucceeded
    /\ call.bundle.CurrentContext = "x2"
    /\ "u2" \in DOMAIN SavedConfig.AuthInfos
    /\ SavedConfig.AuthInfos["u2"] = PreexistingConfig.AuthInfos["u2"]
    /\ SavedConfig.Contexts["x2"] = [Cluster |-> "c1", AuthInfo |-> "u1"]
    /\ SavedConfig.CurrentContext = "x2"

\* C16: after a successful save-kubeconfig run in embedded mode the user
\* entry holds the base64 decoding of the bundle's client certificate as its
\* certificate data and the decoding of the bundle's client key as its key
\* data, not swapped, and holds no exec reference and no certificate or key
\* file path left from the intermediate assignment.
C16_EmbeddedUserEntry ==
    SaveSucceeded /\ ~call.plugin =>
        LET u == call.bundle.Users[1]
        IN  /\ u.Name \in DOMAIN SavedConfig.AuthInfos
            /\ ~DecodeString(u.ClientCertificateData).err
            /\ ~DecodeString(u.ClientKeyData).err
            /\ SavedUser.ClientCertificateData = DecodeString(u.ClientCertificateData).bytes
            /\ SavedUser.ClientKeyData = DecodeString(u.ClientKeyData).bytes
            /\ SavedUser.Exec = NoExec
            /\ SavedUser.ClientCertificate = <<>>
            /\ SavedUser.ClientKey = <<>>

\* an embedded-mode run with a certificate that differs from the key has
\* replaced the older user entry u1, which named certificate and key files
C16_Witness ==
    /\ SaveSucceeded
    /\ ~call.plugin
    /\ call.bundle.Users[1].Name = "u1"
    /\ "c2" \in DOMAIN SavedConfig.Clusters
    /\ SavedUser.ClientCertificateData # <<>>
    /\ SavedUser.ClientKeyData # <<>>
    /\ SavedUser.ClientCertificateData # SavedUser.ClientKeyData

\* the entries of the map new are those of the map old, but for the key k
SameBut(old, new, k) ==
    /\ DOMAIN new \subseteq DOMAIN old \cup {k}
    /\ \A n \in DOMAIN old \ {k} : n \in DOMAIN new /\ new[n] = old[n]

\* C19: a successful save-kubeconfig run changes only the cluster entry
\* named by the bundle's first cluster, the user entry named by its first
\* user, the context entry named by its current context and the
\* current-context pointer: every other entry of every kubeconfig is as
\* before, and no entry is added for a further cluster or user of the bundle.
C19_MergeFrame ==
    [][SaveStep /\ exit' = "returned" =>
         LET b == call'.bundle
         IN  \A p \in Paths :
                /\ SameBut(kubeFiles[p].config.Clusters, kubeFiles'[p].config.Clusters, b.Clusters[1].Name)
                /\ SameBut(kubeFiles[p].config.AuthInfos, kubeFiles'[p].config.AuthInfos, b.Users[1].Name)
                /\ SameBut(kubeFiles[p].config.Contexts, kubeFiles'[p].config.Contexts, b.CurrentContext)
                /\ p # ResolvedPath(environ) => kubeFiles'[p].config = kubeFiles[p].config]_vars

\* a run whose bundle names a second cluster c2 has left the entries the
\* kubeconfig held for c2, u2 and x2 as they were
C19_Witness ==
    /\ SaveSucceeded
    /\ Len(call.bundle.Clusters) = 2
    /\ call.bundle.Clusters[2].Name = "c2"
    /\ call.bundle.CurrentContext = "x1"
    /\ "c1" \in DOMAIN SavedConfig.Clusters
    /\ "c2" \in DOMAIN SavedConfig.Clusters
    /\ SavedConfig.Clusters["c2"] = PreexistingConfig.Clusters["c2"]
    /\ SavedConfig.AuthInfos["u2"] = PreexistingConfig.AuthInfos["u2"]
    /\ SavedConfig.Contexts["x2"] = PreexistingConfig.Contexts["x2"]

\* a further run over a kubeconfig that an earlier run filled: a bundle with a
\* second user u2 has not touched the entry of u2
C19_WitnessUsers ==
    /\ SaveSucceeded
    /\ Len(call.bundle.Users) = 2
    /\ call.bundle.Users[2].Name = "u2"
    /\ "u2" \in DOMAIN SavedConfig.AuthInfos
    /\ SavedConfig.AuthInfos["u2"] = PreexistingConfig.AuthInfos["u2"]

----------------------------------------------------------------------------
(* save-kubeconfig: the file created before the load *)

\* the first steps of the run were the creation of a file and then the load
CreatedBeforeLoad(tr) == Len(tr) >= 2 /\ tr[1] = "create" /\ tr[2] = "load"

\* C15 as the specification states it: whichever way the kubeconfig path is
\* resolved (flag, KUBECONFIG or the default location), a run that finds no
\* file at the resolved path creates an empty file there before it loads
\* the configuration.
C15_AsClaimed ==
    [][SaveStep /\ call'.faults = {} /\ ~fileExists(kubeFiles, ResolvedPath(environ)) =>
         /\ CreatedBeforeLoad(trace')
         /\ fileExists(kubeFiles', ResolvedPath(environ))]_vars

\* the path given to the run: the --kubeconfig flag, else KUBECONFIG, else none
GivenPath == IF environ.kubeconfigFlag # "" THEN environ.kubeconfigFlag ELSE environ.KUBECONFIG

\* C15: when a path is given by the --kubeconfig flag or, without the flag,
\* by KUBECONFIG, and no file exists at that path, a run that can create
\* files creates an empty file at that path before it loads the
\* configuration; when no path is given or the file exists, the run creates
\* no file before the load.
C15_CreatesGivenPath ==
    [][SaveStep /\ "create" \notin call'.faults =>
         IF GivenPath # "" /\ kubeFiles[GivenPath].kind = "absent"
         THEN /\ CreatedBeforeLoad(trace')
              /\ kubeFiles'[GivenPath].kind = "file"
              /\ exit' # "returned" \/ GivenPath # ResolvedPath(environ)
                    => kubeFiles'[GivenPath] = KubeFile(EmptyConfig)
         ELSE /\ "create" \notin Range(trace')
              /\ trace'[1] = "load"
              /\ exit' # "returned" => kubeFiles' = kubeFiles]_vars

\* the flag and KUBECONFIG name different paths: the run has created an
\* empty file at the flag's path, loaded, and written the merge elsewhere
C15_Witness ==
    /\ SaveSucceeded
    /\ environ.kubeconfigFlag = "flagPath"
    /\ environ.KUBECONFIG = "envPath"
    /\ CreatedBeforeLoad(trace)
    /\ kubeFiles["flagPath"] = KubeFile(EmptyConfig)
    /\ kubeFiles["envPath"].config.CurrentContext = call.bundle.CurrentContext

\* no path is given: the run has loaded and failed without a file at the
\* default location, and none has been created
C15_WitnessDefault ==
    /\ call.op = "save-kubeconfig"
    /\ environ = NoEnviron
    /\ exit = "exit1"
    /\ trace[1] = "load"
    /\ kubeFiles["defaultPath"] = AbsentKubeFile

----------------------------------------------------------------------------
(* The cache: stale and corrupt entries *)

\* a cache entry that is expired at time t, has a zero or unset expiration,
\* has no status, or does not parse as a credential record
StaleOrCorrupt(f, t) ==
    \/ f.kind \in {"garbage", "null"}
    \/ f.kind = "object" /\ ~f.Status.present
    \/ f.kind = "object" /\ f.Status.present /\ IsZero(f.Status.ExpirationTimestamp)
    \/ Expired(f, t)

\* C13: whenever loadCachedKubeConfig finds a stale or corrupt entry
\* (expired, zero or unset expiration, missing status, or content that does
\* not parse as a credential record) and meets no I/O fault, it returns and
\* has deleted the file, so that the next read of the same cluster id finds
\* no entry.
C13_SelfHealing ==
    [][\A i \in ClusterIDs :
         LoadStep(i) /\ StaleOrCorrupt(cacheFiles[i], now) =>
            /\ exit' = "returned"
            /\ cacheFiles'[i] = AbsentFile]_vars

\* C14: exec-credential never crashes: whatever the cache file holds
\* (unparsable JSON, the JSON null, a record without status), whatever the
\* kubeconfig load gives, whatever the provider answers and whichever I/O
\* call fails, the command function returns normally.
C14_NeverCrashes == call.op = "exec-credential" => exit = "returned"

\* C20: every record that exec-credential writes to the cache and prints
\* holds, as key data and as certificate data, the complete base64 decodings
\* of the provider's fields; when the decoding of either field fails, the
\* run caches no record and prints none.
C20_CacheIntegrity ==
    call.op = "exec-credential" /\ ExecFetched /\ Len(call.bundle.Users) # 0 =>
        LET key == DecodeString(call.bundle.Users[1].ClientKeyData)
            cert == DecodeString(call.bundle.Users[1].ClientCertificateData)
        IN  IF key.err \/ cert.err
            THEN /\ "write" \notin Range(trace)
                 /\ \A m \in Range(stdout) : m.kind # "json"
            ELSE /\ "write" \in Range(trace) =>
                        /\ cacheFiles[call.id].Status.ClientKeyData = key.bytes
                        /\ cacheFiles[call.id].Status.ClientCertificateData = cert.bytes
                 /\ \A m \in Range(stdout) : m.kind = "json" =>
                        /\ m.doc.Status.ClientKeyData = key.bytes
                        /\ m.doc.Status.ClientCertificateData = cert.bytes

----------------------------------------------------------------------------
(* exec-credential over a cache directory that only this tool writes *)

\* the record that the cache file of cluster i holds was fetched at time t
\* and nothing has replaced it
CachedSince(i, t) == cachedAt.on /\ cachedAt.of[i].set /\ cachedAt.of[i].time = t

\* this step sends a request to the provider
Fetches == "get" \in Range(trace')

\* this step prints the credential that was cached for cluster i and nothing else
PrintsCached(i) == stdout' = <<Json(cachedAt.of[i].doc)>>

\* C17 as the specification states it: once a run at time T has fetched and
\* cached a credential, every later run for that cluster before T plus one
\* hour sends no request and prints the same credential, and a run after T
\* plus one hour fetches again.
C17_AsClaimed ==
    [][\A i \in ClusterIDs : \A T \in 0..MaxTime :
         ExecStep(i) /\ CachedSince(i, T) =>
            /\ now < T + OneHour => ~Fetches /\ PrintsCached(i)
            /\ now > T + OneHour => Fetches]_vars

\* the expiration that a fetch at time t leaves in the cache file: t plus one
\* hour, cut down to the whole second
CachedExpiry(t) == (t + OneHour) - ((t + OneHour) % TicksPerSec)

\* C17: across exec-credential runs for one cluster whose file I/O succeeds,
\* over a cache that only this tool writes: once a run at time T has fetched
\* and cached a credential, every later run for that cluster up to the
\* cached expiration, which is T plus one hour cut down to the whole second,
\* sends no request to the provider, leaves the cache as it is and prints
\* the same credential, and a run after the cached expiration fetches again.
C17_CacheWindow ==
    [][\A i \in ClusterIDs : \A T \in 0..MaxTime :
         ExecStep(i) /\ CachedSince(i, T) =>
            IF now <= CachedExpiry(T)
            THEN ~Fetches /\ PrintsCached(i) /\ cacheFiles' = cacheFiles
            ELSE Fetches /\ SubSeq(trace', 1, 3) = <<"remove", "renew", "get">>]_vars

\* a run has printed, without a request, a credential that an earlier run
\* fetched and cached
C17_Witness ==
    /\ call.op = "exec-credential"
    /\ call.faults = {}
    /\ trace = <<>>
    /\ stderr = <<>>
    /\ cachedAt.of[call.id].set
    /\ cachedAt.of[call.id].time < now
    /\ stdout = <<Json(cachedAt.of[call.id].doc)>>

\* a run has fetched again before a full hour has passed since the fetch of
\* the record it found: the record it leaves expires less than a second
\* after the hour of the one it replaced
C17_WitnessEarlyRefetch ==
    /\ call.op = "exec-credential"
    /\ call.faults = {}
    /\ trace = <<"remove", "renew", "get", "write">>
    /\ cachedAt.of[call.id].set
    /\ cachedAt.of[call.id].time = now
    /\ now % TicksPerSec = 1
    /\ now >= InitTime + OneHour - 1

\* C18: over a cache directory that starts empty and that only this tool
\* writes, every credential that an exec-credential run prints was fetched
\* in that run or was fetched at most one hour before the run.
C18_Freshness ==
    [][call'.op = "exec-credential" =>
         \A d \in PrintedDocs :
            \/ Fetches
            \/ /\ cachedAt.of[call'.id].set
               /\ d = cachedAt.of[call'.id].doc
               /\ now <= cachedAt.of[call'.id].time + OneHour]_vars

\* a run has printed a cached credential that is two ticks old
C18_Witness ==
    /\ call.op = "exec-credential"
    /\ trace = <<>>
    /\ cachedAt.of[call.id].set
    /\ now = cachedAt.of[call.id].time + 2
    /\ stdout = <<Json(cacheFiles[call.id])>>

====
